---- MODULE Spec2Model ----
(***************************************************************************)
(* Model of the BlofinTrader band-breakout bot: the deferred-signal state  *)
(* machine of BandStrategy.get_signal, the polling loop of TradingBot.run, *)
(* the trade execution path of TradingBot.execute_trade and the order      *)
(* submission of BlofinAPI.place_order through the retrying HTTP session.  *)
(*                                                                         *)
(* Timestamps are counted in candle intervals (one unit = 5 minutes).      *)
(* Prices are whole dollars; sizes are exact rationals [num, den].         *)
(***************************************************************************)
EXTENDS Integers, Sequences, FiniteSets, TLC

VARIABLES
    pc,                 \* position of TradingBot.run inside its loop body
    now,                \* wall clock: index of the last 5-minute boundary slept to
    exch,               \* timestamp of the newest candle the exchange serves
    pending_signal,     \* BandStrategy.pending_signal
    last_signal_candle, \* BandStrategy.last_signal_candle: <<>> or <<timestamp>>
    df,                 \* annotated series handed to get_signal (tail rows)
    signal,             \* value returned by the last get_signal call
    bands,              \* execute_trade: band levels of the re-fetched frame
    order,              \* execute_trade: <<>> or <<order data built for place_order>>
    attempts,           \* HTTP session: requests already made for the call in flight
    lev_status,         \* outcome of set_leverage in this execution
    lev_data,           \* <<>> or <<body of the set-leverage request>>
    order_reqs,         \* order-endpoint requests that reached the exchange
    trade_ok,           \* return value of execute_trade ("None" while not returned)
    gapfree,            \* history: every get_signal call so far was one candle after the last
    call_ts,            \* history: <<>> or <<current timestamp of the last get_signal call>>
    discarded,          \* history: arming timestamps of the signals discarded
    fired_at,           \* history: arming timestamps of the signals fired
    running,            \* TradingBot.running, the loop's stop flag
    cancel,             \* history: "none" or <<kind, phase>> of the first cancellation request
    fn_args,            \* arguments of the function under study (pure-function specifications)
    fn_result,          \* the value that function returned for fn_args
    detect_at,          \* history: <<>> or the wall-clock interval of the last get_signal call of the loop
    last_call,          \* history: what the last get_signal call did, "idle" before the first
    active_position,    \* BandStrategy.active_position
    orders_placed       \* history: the orders the exchange has accepted for the account

vars == <<pc, now, exch, pending_signal, last_signal_candle, df, signal, bands,
          order, attempts, lev_status, lev_data, order_reqs, trade_ok,
          gapfree, call_ts, discarded, fired_at, running, cancel, fn_args, fn_result,
          detect_at, last_call, active_position, orders_placed>>

(* Variables most actions of the loop leave alone.                         *)
aux == <<running, cancel, fn_args, fn_result, detect_at, last_call,
         active_position, orders_placed>>

(* ------------------------------ bounds -------------------------------- *)
MaxTime == 4
MaxLen == 2
MaxCallTime == 3
MaxPrice == 10          \* prices 1..MaxPrice given to the position-size function
MaxMult == 3            \* multipliers 1..MaxMult given to calculate_entry_levels
MaxCandles == 23        \* raw series of 0..MaxCandles candles given to calculate_indicators
MaxTail == 2            \* candles at the end of a raw series that differ from the rest

(* ------------------------- program constants -------------------------- *)
Interval == 1
position_size_usd == 100
leverage == 3
tp_multiplier == 2
sl_multiplier == 1
RetryTotal == 3
Span == 34              \* ewm(span=34)
Window == 21            \* rolling(window=21)
MinAmountBTC == 1000
MinAmountETH == 10000
MinAmountDefault == 10000

symbol == "BTC-USDT"
None == "None"
Prices == {25, 4000}

(* A row of the annotated frame: upper_band = max, lower_band = min of the
   two averages, so lower <= upper in every row.                           *)
BandPairs == {b \in [upper : Prices, lower : Prices] : b.lower <= b.upper}
Rows(t) == {[ts |-> t, close |-> c, upper |-> b.upper, lower |-> b.lower] :
              c \in Prices, b \in BandPairs}

RECURSIVE FramesEndingAt(_, _)
FramesEndingAt(t, n) ==
    IF n = 0 THEN {<<>>}
    ELSE {Append(f, r) : f \in FramesEndingAt(t - Interval, n - 1), r \in Rows(t)}

(* fetch_ohlcv: the empty frame on any failure or on fewer than 21 raw
   candles, else the annotated rows, gap-free, ending at the newest candle. *)
FetchOhlcv(t) == UNION {FramesEndingAt(t, n) : n \in 0..MaxLen}

(* ----------------------- BandStrategy (strategy.py) -------------------- *)

(* OutsideBands with non-strict comparisons.                               *)
OutsideBands_NonStrict(prev) ==
    LET prev_above_bands == prev.close >= prev.upper
        prev_below_bands == prev.close <= prev.lower
    IN  IF prev_above_bands \/ prev_below_bands
        THEN (IF prev_above_bands THEN "long" ELSE "short")
        ELSE None

(* Direction of a breakout of a closed candle against its own bands.       *)
OutsideBands(prev) ==
    LET prev_above_bands == prev.close > prev.upper
        prev_below_bands == prev.close < prev.lower
    IN  IF prev_above_bands \/ prev_below_bands
        THEN (IF prev_above_bands THEN "long" ELSE "short")
        ELSE None

(* ResolvePending that also fires after the expected candle.               *)
ResolvePending_FireLate(current, pend, last) ==
    LET expected_next_candle == last[1] + Interval
    IN  IF current.ts >= expected_next_candle
        THEN [ret |-> pend, pending |-> None, last |-> <<>>]
        ELSE [ret |-> None, pending |-> pend, last |-> last]

(* ResolvePending that keeps a signal whose window was missed.             *)
ResolvePending_KeepStale(current, pend, last) ==
    LET expected_next_candle == last[1] + Interval
    IN  IF current.ts = expected_next_candle
        THEN [ret |-> pend, pending |-> None, last |-> <<>>]
        ELSE [ret |-> None, pending |-> pend, last |-> last]

(* The branch taken while a signal is pending: fire on the expected candle,
   discard after it, keep waiting before it.                               *)
ResolvePending(current, pend, last) ==
    LET expected_next_candle == last[1] + Interval
    IN  IF current.ts = expected_next_candle
        THEN [ret |-> pend, pending |-> None, last |-> <<>>]
        ELSE IF current.ts > expected_next_candle
        THEN [ret |-> None, pending |-> None, last |-> <<>>]
        ELSE [ret |-> None, pending |-> pend, last |-> last]

(* ArmSignal that stamps the previous candle whether it broke out or not.  *)
ArmSignal_StampsAlways(prev, pend, last) ==
    IF OutsideBands(prev) # None
    THEN [ret |-> None, pending |-> OutsideBands(prev), last |-> <<prev.ts>>]
    ELSE [ret |-> None, pending |-> pend, last |-> <<prev.ts>>]

(* ArmSignal that returns the direction on the call that arms it.          *)
ArmSignal_FireAtOnce(prev, pend, last) ==
    IF OutsideBands(prev) # None
    THEN [ret |-> OutsideBands(prev), pending |-> OutsideBands(prev), last |-> <<prev.ts>>]
    ELSE [ret |-> None, pending |-> pend, last |-> last]

(* ArmSignal that records the direction and not the breakout candle.       *)
ArmSignal_DirectionOnly(prev, pend, last) ==
    IF OutsideBands(prev) # None
    THEN [ret |-> None, pending |-> OutsideBands(prev), last |-> last]
    ELSE [ret |-> None, pending |-> pend, last |-> last]

(* The branch taken while nothing is pending: arm on the previous candle.  *)
ArmSignal(prev, pend, last) ==
    IF OutsideBands(prev) # None
    THEN [ret |-> None, pending |-> OutsideBands(prev), last |-> <<prev.ts>>]
    ELSE [ret |-> None, pending |-> pend, last |-> last]

(* GetSignal that goes on to the breakout detection after it has
   discarded a stale signal.                                               *)
GetSignal_RedetectAfterDiscard(d, pend, last) ==
    IF Len(d) < 2
    THEN [ret |-> None, pending |-> pend, last |-> last]
    ELSE LET current == d[Len(d)]
             prev == d[Len(d) - 1]
             r == ResolvePending(current, pend, last)
         IN  IF pend # None /\ last # <<>>
             THEN (IF r.ret = None /\ r.pending = None
                   THEN ArmSignal(prev, None, <<>>) ELSE r)
             ELSE ArmSignal(prev, pend, last)

(* GetSignal that goes on to the breakout detection in the call that fired
   or discarded the earlier signal.                                        *)
GetSignal_DetectAfterResolve(d, pend, last) ==
    IF Len(d) < 2
    THEN [ret |-> None, pending |-> pend, last |-> last]
    ELSE LET current == d[Len(d)]
             prev == d[Len(d) - 1]
             r == ResolvePending(current, pend, last)
         IN  IF pend # None /\ last # <<>>
             THEN (IF r.pending = None
                   THEN [ArmSignal(prev, None, <<>>) EXCEPT !.ret = r.ret] ELSE r)
             ELSE ArmSignal(prev, pend, last)

GetSignal(d, pend, last) ==
    IF Len(d) < 2
    THEN [ret |-> None, pending |-> pend, last |-> last]
    ELSE LET current == d[Len(d)]
             prev == d[Len(d) - 1]
         IN  IF pend # None /\ last # <<>>
             THEN ResolvePending(current, pend, last)
             ELSE ArmSignal(prev, pend, last)

(* Python's round(): nearest, ties to even; n/d with d > 0.                *)
RoundHalfEven(n, d) ==
    LET q == n \div d
        r == n % d
    IN  IF 2 * r < d THEN q
        ELSE IF 2 * r > d THEN q + 1
        ELSE IF q % 2 = 0 THEN q ELSE q + 1

(* round(x, 4) of the rational num/den, in units of 0.0001.                *)
Round4(num, den) == RoundHalfEven(num * 10000, den)

Abs(x) == IF x < 0 THEN 0 - x ELSE x

(* EntryLevels whose short branch puts the stop-loss below the price.      *)
EntryLevels_ShortSlBelow(current_price, b, is_long, tp_mult, sl_mult, den) ==
    LET band_distance == Abs(b.upper - b.lower)
        tp_distance == band_distance * tp_mult
        sl_distance == band_distance * sl_mult
    IN  IF is_long
        THEN [tp |-> Round4(current_price + tp_distance, den),
              sl |-> Round4(current_price - sl_distance, den)]
        ELSE [tp |-> Round4(current_price - tp_distance, den),
              sl |-> Round4(current_price - sl_distance, den)]

(* EntryLevels that takes each distance with the other multiplier.         *)
EntryLevels_SwapMultipliers(current_price, b, is_long, tp_mult, sl_mult, den) ==
    LET band_distance == Abs(b.upper - b.lower)
        tp_distance == band_distance * sl_mult
        sl_distance == band_distance * tp_mult
    IN  IF is_long
        THEN [tp |-> Round4(current_price + tp_distance, den),
              sl |-> Round4(current_price - sl_distance, den)]
        ELSE [tp |-> Round4(current_price - tp_distance, den),
              sl |-> Round4(current_price + sl_distance, den)]

(* calculate_entry_levels of a strategy with the given multipliers; the
   price and the bands are in units of 1/den, the levels in units of
   0.0001.                                                                 *)
EntryLevels(current_price, b, is_long, tp_mult, sl_mult, den) ==
    LET band_distance == Abs(b.upper - b.lower)
        tp_distance == band_distance * tp_mult
        sl_distance == band_distance * sl_mult
    IN  IF is_long
        THEN [tp |-> Round4(current_price + tp_distance, den),
              sl |-> Round4(current_price - sl_distance, den)]
        ELSE [tp |-> Round4(current_price - tp_distance, den),
              sl |-> Round4(current_price + sl_distance, den)]

(* Take-profit and stop-loss prices of the bot's strategy for a price and
   bands in whole units, in units of 0.0001.                               *)
CalculateEntryLevels(current_price, b, is_long) ==
    EntryLevels(current_price, b, is_long, tp_multiplier, sl_multiplier, 1)

(* ------------------ PositionCalculator (position_calculator.py) -------- *)
GetMinimumAmount(sym) ==
    IF sym = "BTC-USDT" THEN MinAmountBTC
    ELSE IF sym = "ETH-USDT" THEN MinAmountETH
    ELSE MinAmountDefault

(* Position size as the rational num/den; the value has four fractional
   digits, so the final round(.., 8) leaves it as it is.                   *)
CalculatePositionSize(price, usd_size, lev, sym) ==
    LET position_size == Round4(usd_size * lev, price)
        min_amount == GetMinimumAmount(sym)
    IN  [num |-> IF position_size < min_amount THEN min_amount ELSE position_size,
         den |-> 10000]

RatEq(a, b) == a.num * b.den = b.num * a.den

(* ----------------------- BlofinAPI (blofin_api.py) --------------------- *)

(* What one HTTP exchange can come back with: a success, a status of the
   retry policy's status_forcelist, or another error status.               *)
HttpOutcomes == {"ok", "status_retry", "status_error"}

(* The session's retry policy for a POST: made counts the requests already
   sent for this call; a forcelist status is retried while retries remain. *)
SessionRequest(made, outcome) ==
    IF outcome = "ok" THEN "return"
    ELSE IF outcome = "status_retry" /\ made < RetryTotal THEN "retry"
    ELSE "raise"

SetLeverageData(sym, lev) == [instId |-> sym, lever |-> lev]

(* AfterSetLeverage that goes on to the order whatever set_leverage did.   *)
AfterSetLeverage_IgnoreFailure(result) == "post_order"

(* AfterSetLeverage that starts the next fetch at once when set_leverage
   fails.                                                                  *)
AfterSetLeverage_NextFetch(result) ==
    IF result = "return" THEN "post_order" ELSE "fetch"

(* place_order: where control goes once set_leverage has returned or raised *)
AfterSetLeverage(result) ==
    IF result = "return" THEN "post_order" ELSE "sleep"

OrderData(sym, side, size, take_profit, stop_loss) ==
    [instId |-> sym, tdMode |-> "isolated", side |-> side, ordType |-> "market",
     sz |-> size, tpTriggerPrice |-> take_profit, slTriggerPrice |-> stop_loss]

(* ----------------------- TradingBot (trading_bot.py) ------------------- *)

(* execute_trade: the order it builds from the signal, the price of the
   loop's frame and the bands of the re-fetched frame.                     *)
BuildOrder(sig, current_price, b) ==
    LET is_long == sig = "long"
        levels == CalculateEntryLevels(current_price, b, is_long)
        side == IF is_long THEN "buy" ELSE "sell"
        size == [num |-> position_size_usd, den |-> current_price]
    IN  OrderData(symbol, side, size, levels.tp, levels.sl)

NoExecution ==
    /\ bands' = <<>>
    /\ order' = <<>>
    /\ attempts' = 0
    /\ lev_status' = "none"
    /\ lev_data' = <<>>
    /\ order_reqs' = 0
    /\ trade_ok' = None

Init ==
    /\ pc = "top"
    /\ now = 1
    /\ exch = 1
    /\ pending_signal = None
    /\ last_signal_candle = <<>>
    /\ df = <<>>
    /\ signal = None
    /\ bands = <<>>
    /\ order = <<>>
    /\ attempts = 0
    /\ lev_status = "none"
    /\ lev_data = <<>>
    /\ order_reqs = 0
    /\ trade_ok = None
    /\ gapfree = TRUE
    /\ call_ts = <<>>
    /\ discarded = {}
    /\ fired_at = {}
    /\ running = TRUE
    /\ cancel = "none"
    /\ fn_args = <<>>
    /\ fn_result = <<>>
    /\ detect_at = <<>>
    /\ last_call = "idle"
    /\ active_position = None
    /\ orders_placed = 0

(* A wait that ends at the boundary the iteration started on.              *)
NextCandleTime_SameCandle(start_time) == start_time

(* run: next_candle = ((current_minute // 5) + 1) * 5 * 60, in candle
   intervals: the first boundary strictly after start_time.                *)
NextCandleTime(start_time) == start_time + 1

(* run: sleep to the next 5-minute boundary; the exchange's newest candle
   is the one that opens at that boundary, or still the one before it.     *)
WaitNextCandle ==
    /\ pc = "wait"
    /\ now < MaxTime
    /\ now' = NextCandleTime(now)
    /\ \E e \in {now' - 1, now'} : e >= exch /\ exch' = e
    /\ pc' = "fetch"
    /\ UNCHANGED <<pending_signal, last_signal_candle, df, signal, bands, order,
                   attempts, lev_status, lev_data, order_reqs, trade_ok,
                   gapfree, call_ts, discarded, fired_at>>
    /\ UNCHANGED aux

(* run: while self.running                                                 *)
LoopTop ==
    /\ pc = "top"
    /\ pc' = IF running THEN "wait" ELSE "stopped"
    /\ UNCHANGED <<now, exch, pending_signal, last_signal_candle, df, signal, bands,
                   order, attempts, lev_status, lev_data, order_reqs, trade_ok,
                   gapfree, call_ts, discarded, fired_at>>
    /\ UNCHANGED aux

(* run: where the loop goes with the frame fetch_ohlcv returned.           *)
AfterFetch(f) == IF f = <<>> THEN "retry_sleep" ELSE "detect"

(* AfterFailure that leaves the loop instead of going round again.         *)
AfterFailure_Exit(at) == "stopped"

(* run: where the loop goes after the sleep that follows a failure: the
   continue after an empty frame, the end of the except Exception handler. *)
AfterFailure(at) == "top"

(* run: fetch the frame; an empty one is a failure of this iteration.      *)
Fetch ==
    /\ pc = "fetch"
    /\ \E f \in FetchOhlcv(exch) :
          /\ df' = f
          /\ pc' = AfterFetch(f)
    /\ UNCHANGED <<now, exch, pending_signal, last_signal_candle, signal, bands,
                   order, attempts, lev_status, lev_data, order_reqs, trade_ok,
                   gapfree, call_ts, discarded, fired_at>>
    /\ UNCHANGED aux

(* run: signal = self.strategy.get_signal(df)                              *)
(* AfterDetect that trades only while no order has been accepted yet.      *)
AfterDetect_OnePosition(sig) ==
    IF sig # None /\ orders_placed = 0 THEN "exec_fetch" ELSE "sleep"

(* run: if signal: execute_trade(signal, current_price); nothing else is
   consulted.                                                              *)
AfterDetect(sig) == IF sig # None THEN "exec_fetch" ELSE "sleep"

(* check_and_close_position: the stub returns False on every path.         *)
CheckAndClosePosition == FALSE

(* What a call that started with (pend, last) and ended with r did.        *)
CallOutcome(pend, last, r) ==
    IF r.ret # None THEN "fired"
    ELSE IF pend # None /\ last # <<>> /\ r.pending = None THEN "discarded"
    ELSE IF r.pending # None /\ (r.pending # pend \/ r.last # last) THEN "armed"
    ELSE IF r.pending # None THEN "waiting"
    ELSE "idle"

Detect ==
    /\ pc = "detect"
    /\ LET r == GetSignal(df, pending_signal, last_signal_candle)
           current == df[Len(df)]
           resolved == pending_signal # None /\ last_signal_candle # <<>>
                         /\ r.pending = None
       IN  /\ signal' = r.ret
           /\ pending_signal' = r.pending
           /\ last_signal_candle' = r.last
           /\ pc' = AfterDetect(r.ret)
           /\ gapfree' = (gapfree /\ Len(df) >= 2
                            /\ (call_ts = <<>> \/ current.ts = call_ts[1] + Interval))
           /\ call_ts' = <<current.ts>>
           /\ fired_at' = IF resolved /\ r.ret # None
                          THEN fired_at \cup {last_signal_candle[1]} ELSE fired_at
           /\ discarded' = IF resolved /\ r.ret = None
                           THEN discarded \cup {last_signal_candle[1]} ELSE discarded
    /\ UNCHANGED <<now, exch, df, bands, order, attempts, lev_status, lev_data,
                   order_reqs, trade_ok>>
    /\ detect_at' = <<now>>
    /\ last_call' = CallOutcome(pending_signal, last_signal_candle,
                                GetSignal(df, pending_signal, last_signal_candle))
    /\ UNCHANGED <<running, cancel, fn_args, fn_result, active_position, orders_placed>>

(* AfterExecFetch that goes on to place_order whatever the re-fetch gave.  *)
AfterExecFetch_IgnoreEmpty(f) == "set_leverage"

(* execute_trade: where control goes with the frame its re-fetch returned:
   return False on an empty one.                                           *)
AfterExecFetch(f) == IF f = <<>> THEN "sleep" ELSE "set_leverage"

(* execute_trade up to the call of place_order: re-fetch the frame, read
   the latest bands, build the order.                                      *)
ExecFetch ==
    /\ pc = "exec_fetch"
    /\ \E e \in {exch, now} :
          /\ e >= exch
          /\ exch' = e
          /\ \E f \in FetchOhlcv(e) :
                IF f = <<>>
                THEN /\ trade_ok' = "False"
                     /\ pc' = AfterExecFetch(f)
                     /\ UNCHANGED <<bands, order>>
                ELSE LET latest == f[Len(f)]
                         b == [upper |-> latest.upper, lower |-> latest.lower]
                     IN  /\ bands' = <<b>>
                         /\ order' = <<BuildOrder(signal, df[Len(df)].close, b)>>
                         /\ pc' = AfterExecFetch(f)
                         /\ UNCHANGED trade_ok
    /\ UNCHANGED <<now, pending_signal, last_signal_candle, df, signal, attempts,
                   lev_status, lev_data, order_reqs, gapfree, call_ts, discarded,
                   fired_at>>
    /\ UNCHANGED aux

(* place_order -> set_leverage: one request of the POST to the
   set-leverage endpoint.                                                  *)
SetLeverageRequest ==
    /\ pc = "set_leverage"
    /\ lev_data' = <<SetLeverageData(symbol, leverage)>>
    /\ \E outcome \in HttpOutcomes :
          LET result == SessionRequest(attempts, outcome)
          IN  IF result = "retry"
              THEN /\ attempts' = attempts + 1
                   /\ UNCHANGED <<pc, lev_status, trade_ok>>
              ELSE /\ attempts' = 0
                   /\ lev_status' = IF result = "return" THEN "ok" ELSE "failed"
                   /\ pc' = AfterSetLeverage(result)
                   /\ trade_ok' = IF AfterSetLeverage(result) = "sleep"
                                  THEN "False" ELSE trade_ok
    /\ UNCHANGED <<now, exch, pending_signal, last_signal_candle, df, signal,
                   bands, order, order_reqs, gapfree, call_ts, discarded, fired_at>>
    /\ UNCHANGED aux

(* place_order: one request of the POST to the order endpoint.             *)
OrderRequest ==
    /\ pc = "post_order"
    /\ order_reqs' = order_reqs + 1
    /\ \E outcome \in HttpOutcomes :
          LET result == SessionRequest(attempts, outcome)
          IN  IF result = "retry"
              THEN /\ attempts' = attempts + 1
                   /\ UNCHANGED <<pc, trade_ok, orders_placed>>
              ELSE /\ attempts' = 0
                   /\ pc' = "sleep"
                   /\ orders_placed' = IF result = "return"
                                       THEN orders_placed + 1 ELSE orders_placed
                   /\ trade_ok' = IF result = "return" THEN "True" ELSE "False"
    /\ UNCHANGED <<now, exch, pending_signal, last_signal_candle, df, signal,
                   bands, order, lev_status, lev_data, gapfree, call_ts,
                   discarded, fired_at>>
    /\ UNCHANGED <<running, cancel, fn_args, fn_result, detect_at, last_call,
                   active_position>>

(* run: time.sleep(10); continue, after an empty frame.                    *)
RetrySleep ==
    /\ pc = "retry_sleep"
    /\ pc' = AfterFailure("retry_sleep")
    /\ UNCHANGED <<now, exch, pending_signal, last_signal_candle, df, signal, bands,
                   order, attempts, lev_status, lev_data, order_reqs, trade_ok,
                   gapfree, call_ts, discarded, fired_at>>
    /\ UNCHANGED aux

(* run: an exception escapes the loop body before get_signal has returned
   and is caught by except Exception.                                      *)
LoopException ==
    /\ pc = "detect"
    /\ pc' = "backoff"
    /\ UNCHANGED <<now, exch, pending_signal, last_signal_candle, df, signal, bands,
                   order, attempts, lev_status, lev_data, order_reqs, trade_ok,
                   gapfree, call_ts, discarded, fired_at>>
    /\ UNCHANGED aux

(* run: time.sleep(60) at the end of the except Exception handler.         *)
Backoff ==
    /\ pc = "backoff"
    /\ pc' = AfterFailure("backoff")
    /\ UNCHANGED <<now, exch, pending_signal, last_signal_candle, df, signal, bands,
                   order, attempts, lev_status, lev_data, order_reqs, trade_ok,
                   gapfree, call_ts, discarded, fired_at>>
    /\ UNCHANGED aux

(* run: the sleep that ends an iteration; execute_trade's locals are gone. *)
SleepBeforeNext ==
    /\ pc = "sleep"
    /\ pc' = "top"
    /\ NoExecution
    /\ UNCHANGED <<now, exch, pending_signal, last_signal_candle, df, signal,
                   gapfree, call_ts, discarded, fired_at>>
    /\ UNCHANGED aux

Next ==
    \/ LoopTop
    \/ WaitNextCandle
    \/ Fetch
    \/ RetrySleep
    \/ Detect
    \/ LoopException
    \/ Backoff
    \/ ExecFetch
    \/ SetLeverageRequest
    \/ OrderRequest
    \/ SleepBeforeNext

Spec == Init /\ [][Next]_vars

(* ---- the bot started on an account that may already hold an order ----- *)
EarlierOrders == {0, 1}

(* main: the bot reads nothing of the account when it starts; the orders
   an earlier run placed are still with the exchange.                      *)
InitAccount ==
    /\ pc = "top"
    /\ now = 1
    /\ exch = 1
    /\ pending_signal = None
    /\ last_signal_candle = <<>>
    /\ df = <<>>
    /\ signal = None
    /\ bands = <<>>
    /\ order = <<>>
    /\ attempts = 0
    /\ lev_status = "none"
    /\ lev_data = <<>>
    /\ order_reqs = 0
    /\ trade_ok = None
    /\ gapfree = TRUE
    /\ call_ts = <<>>
    /\ discarded = {}
    /\ fired_at = {}
    /\ running = TRUE
    /\ cancel = "none"
    /\ fn_args = <<>>
    /\ fn_result = <<>>
    /\ detect_at = <<>>
    /\ last_call = "idle"
    /\ active_position = None
    /\ orders_placed \in EarlierOrders

SpecAccount == InitAccount /\ [][Next]_vars

(* ---------------------- the loop with cancellation --------------------- *)
Sleeping == {"wait", "sleep", "retry_sleep", "backoff"}
Busy == {"fetch", "detect", "exec_fetch", "set_leverage", "post_order"}
Phase(at) == IF at \in Sleeping THEN "sleeping" ELSE IF at \in Busy THEN "busy" ELSE "top"

(* Ctrl-C: KeyboardInterrupt is raised wherever the main thread is; neither
   except Exception handler catches it, the outer handler of run does.     *)
KeyboardInterrupt ==
    /\ pc # "stopped"
    /\ pc' = "stopped"
    /\ running' = FALSE
    /\ cancel' = IF cancel = "none" THEN <<"interrupt", Phase(pc)>> ELSE cancel
    /\ UNCHANGED <<now, exch, pending_signal, last_signal_candle, df, signal, bands,
                   order, attempts, lev_status, lev_data, order_reqs, trade_ok,
                   gapfree, call_ts, discarded, fired_at, fn_args, fn_result,
                   detect_at, last_call,
                   active_position, orders_placed>>

(* The owner of the bot clears the stop flag: bot.running = False.         *)
StopFlag ==
    /\ pc # "stopped"
    /\ running
    /\ running' = FALSE
    /\ cancel' = IF cancel = "none" THEN <<"flag", Phase(pc)>> ELSE cancel
    /\ UNCHANGED <<pc, now, exch, pending_signal, last_signal_candle, df, signal,
                   bands, order, attempts, lev_status, lev_data, order_reqs,
                   trade_ok, gapfree, call_ts, discarded, fired_at, fn_args, fn_result,
                   detect_at, last_call,
                   active_position, orders_placed>>

NextCancel ==
    \/ Next
    \/ KeyboardInterrupt
    \/ StopFlag

SpecCancel == Init /\ [][NextCancel]_vars

(* The loop that nobody cancels: the interpreter keeps executing it.       *)
FairSpec == Init /\ [][Next]_vars /\ WF_vars(Next)

(* ------------- get_signal on its own, called with any frame ------------ *)
AnyFrame == UNION {FetchOhlcv(t) : t \in 1..MaxCallTime}

InitDetect ==
    /\ pc = "detect"
    /\ now = 1
    /\ exch = 1
    /\ pending_signal = None
    /\ last_signal_candle = <<>>
    /\ df \in AnyFrame
    /\ signal = None
    /\ bands = <<>>
    /\ order = <<>>
    /\ attempts = 0
    /\ lev_status = "none"
    /\ lev_data = <<>>
    /\ order_reqs = 0
    /\ trade_ok = None
    /\ gapfree = TRUE
    /\ call_ts = <<>>
    /\ discarded = {}
    /\ fired_at = {}
    /\ running = TRUE
    /\ cancel = "none"
    /\ fn_args = <<>>
    /\ fn_result = <<>>
    /\ detect_at = <<>>
    /\ last_call = "idle"
    /\ active_position = None
    /\ orders_placed = 0

GetSignalCall ==
    /\ pc = "detect"
    /\ LET r == GetSignal(df, pending_signal, last_signal_candle)
       IN  /\ signal' = r.ret
           /\ pending_signal' = r.pending
           /\ last_signal_candle' = r.last
    /\ df' \in AnyFrame
    /\ UNCHANGED <<pc, now, exch, bands, order, attempts, lev_status, lev_data,
                   order_reqs, trade_ok, gapfree, call_ts, discarded, fired_at>>
    /\ last_call' = CallOutcome(pending_signal, last_signal_candle,
                                GetSignal(df, pending_signal, last_signal_candle))
    /\ UNCHANGED <<running, cancel, fn_args, fn_result, detect_at,
                   active_position, orders_placed>>

NextDetect == GetSignalCall

SpecDetect == InitDetect /\ [][NextDetect]_vars

(* ------------- PositionCalculator.calculate_position_size -------------- *)

(* The loop's variables, which a call of a pure function leaves alone.     *)
loop_vars == <<now, exch, pending_signal, last_signal_candle, df, signal, bands,
               order, attempts, lev_status, lev_data, order_reqs, trade_ok,
               gapfree, call_ts, discarded, fired_at, running, cancel, detect_at, last_call,
                   active_position, orders_placed>>

(* A caller about to call a function of the bot's modules.                 *)
InitCall ==
    /\ pc = "call"
    /\ now = 1
    /\ exch = 1
    /\ pending_signal = None
    /\ last_signal_candle = <<>>
    /\ df = <<>>
    /\ signal = None
    /\ bands = <<>>
    /\ order = <<>>
    /\ attempts = 0
    /\ lev_status = "none"
    /\ lev_data = <<>>
    /\ order_reqs = 0
    /\ trade_ok = None
    /\ gapfree = TRUE
    /\ call_ts = <<>>
    /\ discarded = {}
    /\ fired_at = {}
    /\ running = TRUE
    /\ cancel = "none"
    /\ fn_args = <<>>
    /\ fn_result = <<>>
    /\ detect_at = <<>>
    /\ last_call = "idle"
    /\ active_position = None
    /\ orders_placed = 0

SizePrices == (1..MaxPrice) \cup {1000, 4000}
SizeSymbols == {"BTC-USDT", "ETH-USDT", "DOGE-USDT"}
SizeInputs ==
    [price : SizePrices, usd_size : {10, 100}, lev : {1, 3}, sym : SizeSymbols]

(* One call of calculate_position_size with any of the inputs.             *)
CalculatePositionSizeCall ==
    /\ pc = "call"
    /\ \E a \in SizeInputs :
          /\ fn_args' = <<a>>
          /\ fn_result' = <<CalculatePositionSize(a.price, a.usd_size, a.lev, a.sym)>>
    /\ UNCHANGED <<pc, loop_vars>>

NextSize == CalculatePositionSizeCall

SpecSize == InitCall /\ [][NextSize]_vars

(* ----------------- BandStrategy.calculate_entry_levels ----------------- *)

(* Prices and bands are given in units of 0.00001, one digit finer than
   the levels returned.                                                    *)
LevelDen == 100000
LevelPrices == {50000, 50003, 50005, 50015}
LevelBands ==
    {[upper |-> l + w, lower |-> l] : l \in {49990, 50005}, w \in {0, 1, 5, 20}}
LevelInputs ==
    [price : LevelPrices, bands : LevelBands, tp : 1..MaxMult, sl : 1..MaxMult]

(* calculate_entry_levels called for a long and for a short entry with the
   same price, bands and multipliers.                                      *)
CalculateEntryLevelsCall ==
    /\ pc = "call"
    /\ \E a \in LevelInputs :
          /\ fn_args' = <<a>>
          /\ fn_result' = <<[long  |-> EntryLevels(a.price, a.bands, TRUE, a.tp, a.sl, LevelDen),
                             short |-> EntryLevels(a.price, a.bands, FALSE, a.tp, a.sl, LevelDen)]>>
    /\ UNCHANGED <<pc, loop_vars>>

NextLevels == CalculateEntryLevelsCall

SpecLevels == InitCall /\ [][NextLevels]_vars

(* ------------------ BandStrategy.calculate_indicators ------------------ *)

(* Averages are exact rationals [num, den] in lowest terms; a cell of a
   column is <<>> for NaN and <<x>> for the value x.                       *)
RECURSIVE GCD(_, _)
GCD(a, b) == IF b = 0 THEN a ELSE GCD(b, a % b)

Norm(n, d) == [num |-> n \div GCD(n, d), den |-> d \div GCD(n, d)]

RatLeq(a, b) == a.num * b.den <= b.num * a.den

(* EwmMean that adds the new term without decaying the old average.        *)
RECURSIVE EwmMean_Undecayed(_, _)
EwmMean_Undecayed(df_raw, i) ==
    IF i = 1 THEN Norm(df_raw[1].close, 1)
    ELSE LET y == EwmMean_Undecayed(df_raw, i - 1)
         IN  Norm((Span + 1) * y.num + 2 * df_raw[i].close * y.den, (Span + 1) * y.den)

(* close.ewm(span=Span, adjust=False).mean() at row i: seeded with the
   first close, then y = (1 - alpha) * y + alpha * x, alpha = 2/(Span+1).  *)
RECURSIVE EwmMean(_, _)
EwmMean(df_raw, i) ==
    IF i = 1 THEN Norm(df_raw[1].close, 1)
    ELSE LET y == EwmMean(df_raw, i - 1)
         IN  Norm((Span - 1) * y.num + 2 * df_raw[i].close * y.den, (Span + 1) * y.den)

RECURSIVE SumClose(_, _, _)
SumClose(df_raw, lo, hi) ==
    IF lo > hi THEN 0 ELSE df_raw[hi].close + SumClose(df_raw, lo, hi - 1)

(* close.rolling(window=Window).mean() at row i: NaN until the window is
   full.                                                                   *)
RollingMean(df_raw, i) ==
    IF i < Window THEN <<>>
    ELSE <<Norm(SumClose(df_raw, i - Window + 1, i), Window)>>

(* RowMax that takes the fast average whatever the slow one is.            *)
RowMax_TakesFast(ema, sma) == ema

(* max(axis=1) and min(axis=1) of the two average columns; NaN is skipped. *)
RowMax(ema, sma) ==
    IF sma = <<>> THEN ema
    ELSE IF ema = <<>> THEN sma
    ELSE IF RatLeq(ema[1], sma[1]) THEN sma ELSE ema

RowMin(ema, sma) ==
    IF sma = <<>> THEN ema
    ELSE IF ema = <<>> THEN sma
    ELSE IF RatLeq(ema[1], sma[1]) THEN ema ELSE sma

(* The frame with the four columns added.                                  *)
WithColumns(df_raw) ==
    [i \in 1..Len(df_raw) |->
        LET ema == <<EwmMean(df_raw, i)>>
            sma == RollingMean(df_raw, i)
        IN  [ts |-> df_raw[i].ts, close |-> df_raw[i].close,
             EMA34 |-> ema, SMA21 |-> sma,
             upper_band |-> RowMax(ema, sma), lower_band |-> RowMin(ema, sma)]]

HasNoNaN(row) ==
    /\ row.EMA34 # <<>>
    /\ row.SMA21 # <<>>
    /\ row.upper_band # <<>>
    /\ row.lower_band # <<>>

(* DropNa that drops the NaN cells of each column and pairs what is left
   with the first rows of the frame.                                       *)
DropNa_ByColumn(frame) ==
    LET kept == SelectSeq(frame, HasNoNaN)
    IN  [k \in 1..Len(kept) |->
            [kept[k] EXCEPT !.ts = frame[k].ts, !.close = frame[k].close]]

(* df.dropna(): the rows without a NaN, in their order.                    *)
DropNa(frame) == SelectSeq(frame, HasNoNaN)

CalculateIndicators(df_raw) ==
    IF df_raw = <<>> THEN df_raw ELSE DropNa(WithColumns(df_raw))

(* Raw series: candles 1..n, all closing at p except the last ones.        *)
RawPrices == {10, 20, 40}
RECURSIVE Tails(_)
Tails(k) ==
    IF k = 0 THEN {<<>>}
    ELSE {Append(t, c) : t \in Tails(k - 1), c \in RawPrices}

RawSeries ==
    {[i \in 1..n |-> [ts |-> i, close |-> IF i <= n - Len(t) THEN p ELSE t[i - (n - Len(t))]]] :
        n \in 0..MaxCandles, p \in RawPrices,
        t \in UNION {Tails(k) : k \in 0..MaxTail}}

(* The annotated row as get_signal compares it: close and bands brought to
   one denominator.                                                        *)
Scaled(row) ==
    LET u == row.upper_band[1]
        l == row.lower_band[1]
    IN  [ts |-> row.ts, close |-> row.close * u.den * l.den,
         upper |-> u.num * l.den, lower |-> l.num * u.den]

(* A strategy object with no signal pending and the raw series that the
   first fetch gets.                                                       *)
InitIndicators ==
    /\ pc = "call"
    /\ now = 1
    /\ exch = 1
    /\ pending_signal = None
    /\ last_signal_candle = <<>>
    /\ df = <<>>
    /\ signal = None
    /\ bands = <<>>
    /\ order = <<>>
    /\ attempts = 0
    /\ lev_status = "none"
    /\ lev_data = <<>>
    /\ order_reqs = 0
    /\ trade_ok = None
    /\ gapfree = TRUE
    /\ call_ts = <<>>
    /\ discarded = {}
    /\ fired_at = {}
    /\ running = TRUE
    /\ cancel = "none"
    /\ fn_args \in {<<raw>> : raw \in RawSeries}
    /\ fn_result = <<>>
    /\ detect_at = <<>>
    /\ last_call = "idle"
    /\ active_position = None
    /\ orders_placed = 0

(* fetch_ohlcv's call of calculate_indicators on the raw series.           *)
CalculateIndicatorsCall ==
    /\ pc = "call"
    /\ fn_result' = <<CalculateIndicators(fn_args[1])>>
    /\ pc' = "signal"
    /\ UNCHANGED <<loop_vars, fn_args>>

(* run's call of get_signal on the annotated series.                       *)
GetSignalOnSeries ==
    /\ pc = "signal"
    /\ LET d == [k \in 1..Len(fn_result[1]) |-> Scaled(fn_result[1][k])]
           r == GetSignal(d, pending_signal, last_signal_candle)
       IN  /\ signal' = r.ret
           /\ pending_signal' = r.pending
           /\ last_signal_candle' = r.last
    /\ pc' = "candle"
    /\ UNCHANGED <<now, exch, df, bands, order, attempts, lev_status, lev_data,
                   order_reqs, trade_ok, gapfree, call_ts, discarded, fired_at,
                   running, cancel, fn_args, fn_result, detect_at, last_call,
                   active_position, orders_placed>>

(* The exchange closes one more candle; the next fetch gets the longer
   series.                                                                 *)
NextCandle ==
    /\ pc = "candle"
    /\ \E c \in RawPrices :
          LET longer == Append(fn_args[1], [ts |-> Len(fn_args[1]) + 1, close |-> c])
          IN  /\ longer \in RawSeries
              /\ fn_args' = <<longer>>
    /\ pc' = "call"
    /\ UNCHANGED <<loop_vars, fn_result>>

NextIndicators ==
    \/ CalculateIndicatorsCall
    \/ GetSignalOnSeries
    \/ NextCandle

SpecIndicators == InitIndicators /\ [][NextIndicators]_vars

(* ------------------------- main (trading_bot.py) ----------------------- *)

(* What the command line can give: argparse checks the types only.         *)
Configs ==
    [symbol : {"BTC-USDT", "BTCUSD"}, position_size_usd : {-100, 0, 100},
     leverage : {0, 1, 3}, tp_multiplier : {-2, 0, 2}, sl_multiplier : {0, 1}]

InitMain ==
    /\ pc = "main"
    /\ now = 1
    /\ exch = 1
    /\ pending_signal = None
    /\ last_signal_candle = <<>>
    /\ df = <<>>
    /\ signal = None
    /\ bands = <<>>
    /\ order = <<>>
    /\ attempts = 0
    /\ lev_status = "none"
    /\ lev_data = <<>>
    /\ order_reqs = 0
    /\ trade_ok = None
    /\ gapfree = TRUE
    /\ call_ts = <<>>
    /\ discarded = {}
    /\ fired_at = {}
    /\ running = FALSE
    /\ cancel = "none"
    /\ fn_args = <<>>
    /\ fn_result = <<>>
    /\ detect_at = <<>>
    /\ last_call = "idle"
    /\ active_position = None
    /\ orders_placed = 0

(* main: parse the arguments, construct TradingBot (which constructs
   BandStrategy; both constructors only store what they are given) and call
   run, which sets running and enters the loop.                           *)
Main ==
    /\ pc = "main"
    /\ \E cfg \in Configs :
          /\ fn_args' = <<cfg>>
          /\ fn_result' = <<"constructed">>
    /\ running' = TRUE
    /\ pc' = "top"
    /\ UNCHANGED <<now, exch, pending_signal, last_signal_candle, df, signal, bands,
                   order, attempts, lev_status, lev_data, order_reqs, trade_ok,
                   gapfree, call_ts, discarded, fired_at, cancel, detect_at, last_call,
                   active_position, orders_placed>>

(* main followed by the loop up to its candle fetch.                       *)
NextMain ==
    \/ Main
    \/ LoopTop
    \/ WaitNextCandle
    \/ Fetch
    \/ RetrySleep

SpecMain == InitMain /\ [][NextMain]_vars

(* ============================ properties =============================== *)

Pending == pending_signal # None /\ last_signal_candle # <<>>
Current == df[Len(df)]
Previous == df[Len(df) - 1]
Expected == last_signal_candle[1] + Interval
Discards == Pending /\ pending_signal' = None /\ signal' = None

(* The step is a call of get_signal that returns (not one that raises).    *)
Returns == pc = "detect" /\ pc' \in {"detect", "exec_fetch", "sleep"}

(* C1: when get_signal is called once per candle on a gap-free series, the
   call whose current candle is one interval after a candle that closed
   outside its band returns that candle's direction, and no armed signal is
   discarded.                                                              *)
C1_FiredOnNextCandle ==
    [][(Returns /\ Len(df) >= 2 /\ gapfree')
         => /\ (OutsideBands(Previous) # None => signal' = OutsideBands(Previous))
            /\ ~Discards]_vars

(* C2: a call that arms a signal returns no signal, and a call returns a
   direction only if it started with a signal pending.                     *)
C2_ArmAndFireApart ==
    [][Returns
         => /\ (pending_signal = None /\ pending_signal' # None => signal' = None)
            /\ (signal' # None => pending_signal # None)]_vars

C2_Witness == pending_signal # None /\ last_signal_candle # <<>> /\ signal = None

(* C3 as stated: a call returns a direction if and only if a signal is
   pending and the current candle is the expected one; it then returns the
   armed direction and clears the pending state.                           *)
C3_Original ==
    [][Returns
         => /\ (signal' # None <=> (Pending /\ Len(df) >= 1 /\ Current.ts = Expected))
            /\ (signal' # None => /\ signal' = pending_signal
                                  /\ pending_signal' = None
                                  /\ last_signal_candle' = <<>>)]_vars

(* C3 amended: a call returns a direction if and only if the series has at
   least two candles, a signal is pending and the current candle is the
   expected one; it then returns the armed direction and clears the pending
   state.                                                                  *)
C3_FireIffExpected ==
    [][Returns
         => /\ (signal' # None <=> (Len(df) >= 2 /\ Pending /\ Current.ts = Expected))
            /\ (signal' # None => /\ signal' = pending_signal
                                  /\ pending_signal' = None
                                  /\ last_signal_candle' = <<>>)]_vars

C3_Witness == signal # None /\ pending_signal = None /\ last_signal_candle = <<>>

(* C4: a call with at least two candles whose current candle is later than
   the expected one clears the pending signal and returns nothing, for
   either direction, and a discarded signal is never fired afterwards.     *)
C4_DiscardStale ==
    [][Returns
         => /\ (Pending /\ Len(df) >= 2 /\ Current.ts > Expected
                  => /\ pending_signal' = None
                     /\ last_signal_candle' = <<>>
                     /\ signal' = None)
            /\ (signal' # None /\ last_signal_candle # <<>>
                  => last_signal_candle[1] \notin discarded)]_vars

C4_Witness ==
    /\ pc = "sleep"
    /\ discarded # {}
    /\ pending_signal = None
    /\ signal = None
    /\ Current.ts - 2 * Interval \in discarded

(* C5: once an iteration of the loop is over, a signal still pending was
   armed on a candle less than two candle boundaries back.                 *)
C5_ResolvedByNextCandle ==
    (pc \in {"top", "wait", "sleep", "retry_sleep"} /\ Pending)
        => exch < last_signal_candle[1] + 2 * Interval

(* C6: with nothing pending and at least two candles, the call arms long
   exactly when the previous candle closed above its upper band and short
   exactly when it closed below its lower band, at the previous candle's
   timestamp.                                                              *)
C6_ArmOnPrevious ==
    [][(Returns /\ pending_signal = None /\ Len(df) >= 2)
         => /\ (Previous.close > Previous.upper <=> pending_signal' = "long")
            /\ (Previous.close < Previous.lower <=> pending_signal' = "short")
            /\ (pending_signal' # None => last_signal_candle' = <<Previous.ts>>)
            /\ signal' = None]_vars

C6_Witness ==
    /\ pending_signal = "short"
    /\ \E t \in 0..MaxCallTime : last_signal_candle = <<t>>
    /\ signal = None

(* C7: at most one request reaches the order endpoint for a fired signal.  *)
C7_SingleOrderRequest == order_reqs <= 1

(* C8: an order request is sent only after set-leverage for the same symbol
   with the configured leverage succeeded in the same execution, and none
   is sent once set-leverage has failed.                                   *)
C8_LeverageBeforeOrder ==
    /\ (order_reqs > 0 \/ pc = "post_order"
          => /\ lev_status = "ok"
             /\ lev_data = <<[instId |-> symbol, lever |-> leverage]>>)
    /\ (lev_status = "failed" => order_reqs = 0 /\ pc # "post_order")

C8_Witness == order_reqs > 0 /\ lev_status = "ok" /\ trade_ok = "True"

(* C9: no order is submitted for a signal whose latest bands have zero
   width.                                                                  *)
C9_NoOrderOnZeroWidth ==
    (order_reqs > 0 /\ bands # <<>>) => bands[1].upper # bands[1].lower

(* C10: the size of a submitted order is the position size of
   calculate_position_size for the price of the fired signal.              *)
C10_OrderSize ==
    order_reqs > 0 =>
        RatEq(order[1].sz,
              CalculatePositionSize(Current.close, position_size_usd, leverage, symbol))


(* A failure of the iteration: fetch_ohlcv returned an empty frame, or an
   exception was caught by the loop's except Exception handler.            *)
Failed == pc \in {"retry_sleep", "backoff"}

(* C12: in a loop that is not cancelled, after a failure while fetching or
   detecting (an empty frame or an exception) the loop eventually performs
   another fetch at a later interval.                                      *)
C12_LoopSurvivesFailure ==
    \A n \in 1..(MaxTime - 1) :
        (Failed /\ now = n) ~> (pc = "fetch" /\ now > n)

C12_Witness == pc = "fetch" /\ df = <<>> /\ now > 2 /\ cancel = "none"

(* C13: a failed order submission has sent the order once, and has left the
   detector without a pending signal.                                     *)
C13_FailedOrderNotResent ==
    (trade_ok = "False" /\ order_reqs > 0)
        => (order_reqs = 1 /\ pending_signal = None)

(* C14: a cancellation request arriving during the fetch, the detection or
   the order submission does not stop the loop at that point: the cycle in
   flight goes on.                                                         *)
C14_CycleNotAborted == [][(pc \in Busy) => (pc' # "stopped")]_vars

(* The step performs a candle fetch, or sends an order request.            *)
Fetches == pc = "fetch" /\ pc' \in {"detect", "retry_sleep"}
Submits == order_reqs' > order_reqs

(* C15: once a cancellation has been requested during a sleep, the loop
   performs no candle fetch and sends no order request.                    *)
C15_NoWorkAfterCancel ==
    [][(cancel # "none" /\ cancel[2] = "sleeping") => (~Fetches /\ ~Submits)]_vars


(* round(x, 8) of the rational num/den >= 0, as whole units and the eight
   fractional digits; the division is done in two steps of four digits.    *)
Round8(num, den) ==
    LET whole == num \div den
        hi == ((num % den) * 10000) \div den
        lo == RoundHalfEven((((num % den) * 10000) % den) * 10000, den)
        frac == hi * 10000 + lo
    IN  IF frac = 100000000 THEN [whole |-> whole + 1, frac |-> 0]
        ELSE [whole |-> whole, frac |-> frac]

(* A size of four fractional digits written with eight.                    *)
AsEightDigits(sz) == [whole |-> sz.num \div sz.den, frac |-> (sz.num % sz.den) * 10000]

(* raw = usd_size * leverage / price is below the symbol's minimum.        *)
RawBelowMinimum(a) == a.usd_size * a.lev * 10000 < GetMinimumAmount(a.sym) * a.price

(* C11: calculate_position_size returns the symbol's minimum when raw =
   usd_size * leverage / price is below it and raw rounded to 8 fractional
   digits otherwise; the minimum of an unlisted symbol is the DEFAULT one. *)
C11_SizeIsRawOrMinimum ==
    (pc = "call" /\ fn_args # <<>>)
        => AsEightDigits(fn_result[1])
             = IF RawBelowMinimum(fn_args[1])
               THEN AsEightDigits([num |-> GetMinimumAmount(fn_args[1].sym), den |-> 10000])
               ELSE Round8(fn_args[1].usd_size * fn_args[1].lev, fn_args[1].price)



(* The configuration values the claim calls invalid.                       *)
InvalidConfig(cfg) ==
    \/ cfg.position_size_usd <= 0
    \/ cfg.leverage < 1
    \/ cfg.tp_multiplier <= 0
    \/ cfg.sl_multiplier <= 0

(* C16: with a non-positive position size, a leverage below 1 or a
   non-positive multiplier nothing is constructed and the loop never
   starts.                                                                 *)
C16_InvalidConfigRejected ==
    (fn_args # <<>> /\ InvalidConfig(fn_args[1]))
        => (fn_result # <<"constructed">> /\ pc \notin {"top", "wait", "fetch", "detect", "retry_sleep"})



(* The arguments and the results of the call of calculate_entry_levels.    *)
LevelsCalled == pc = "call" /\ fn_args # <<>>
entry == fn_args[1].price
w == fn_args[1].bands.upper - fn_args[1].bands.lower
long == fn_result[1].long
short == fn_result[1].short

(* A level (units of 0.0001) written in the units of the price.            *)
InPriceUnits(level) == level * (LevelDen \div 10000)

(* C17 as stated: with equal multipliers, the long take-profit is as far
   above the entry as the short stop-loss is below it.                     *)
C17_Original ==
    (LevelsCalled /\ fn_args[1].tp = fn_args[1].sl)
        => InPriceUnits(long.tp) - entry = entry - InPriceUnits(short.sl)

(* C17: with equal multipliers the long take-profit and the short stop-loss
   are the same level, on the same side of the entry, and so are the long
   stop-loss and the short take-profit.                                    *)
C17_LongTpIsShortSl ==
    (LevelsCalled /\ fn_args[1].tp = fn_args[1].sl)
        => /\ InPriceUnits(long.tp) - entry = InPriceUnits(short.sl) - entry
           /\ InPriceUnits(long.sl) - entry = InPriceUnits(short.tp) - entry

C17_Witness ==
    /\ LevelsCalled
    /\ fn_args[1].tp = fn_args[1].sl
    /\ w > 0
    /\ long.tp = short.sl
    /\ InPriceUnits(long.tp) > entry

(* level is exact to the nearest 0.0001 (exact in the units of the price). *)
Nearest(level, exact) ==
    2 * Abs(InPriceUnits(level) - exact) <= LevelDen \div 10000

(* C18 as stated: the levels are the entry plus or minus the width times
   the multiplier, the entry lies between them, and they coincide exactly
   when the width is 0.                                                    *)
C18_Original ==
    LevelsCalled
        => /\ InPriceUnits(long.tp) = entry + w * fn_args[1].tp
           /\ InPriceUnits(long.sl) = entry - w * fn_args[1].sl
           /\ InPriceUnits(short.tp) = entry - w * fn_args[1].tp
           /\ InPriceUnits(short.sl) = entry + w * fn_args[1].sl
           /\ (long.tp = long.sl <=> w = 0)
           /\ (short.tp = short.sl <=> w = 0)

(* C18: each level is the entry plus or minus the width times the
   multiplier, to the nearest 0.0001; the long stop-loss is not above the
   long take-profit and the short take-profit not above the short
   stop-loss; with width 0 the two levels coincide.                        *)
C18_LevelsToFourDigits ==
    LevelsCalled
        => /\ Nearest(long.tp, entry + w * fn_args[1].tp)
           /\ Nearest(long.sl, entry - w * fn_args[1].sl)
           /\ Nearest(short.tp, entry - w * fn_args[1].tp)
           /\ Nearest(short.sl, entry + w * fn_args[1].sl)
           /\ long.sl <= long.tp
           /\ short.tp <= short.sl
           /\ (w = 0 => long.tp = long.sl /\ short.tp = short.sl)

C18_Witness ==
    /\ LevelsCalled
    /\ w > 0
    /\ fn_args[1].tp # fn_args[1].sl
    /\ long.tp = long.sl
    /\ InPriceUnits(long.tp) # entry



(* The raw series given to calculate_indicators and the series returned.   *)
Annotated == pc = "signal" /\ fn_args # <<>>
raw_series == fn_args[1]
annotated == fn_result[1]

(* The row of the raw series that the k-th annotated row comes from.       *)
Origin(k) == k + (Window - 1)

(* C19: for N raw candles calculate_indicators returns max(0, N - 20)
   candles: the last N - 20 raw candles in their order, each with its own
   timestamp and close, with the mean of the 21 closes ending at that
   candle and the exponential average up to that candle, and with bands
   that are the larger and the smaller of these two averages.              *)
C19_WarmUpTruncation ==
    Annotated
        => /\ Len(annotated) = IF Len(raw_series) < Window THEN 0
                               ELSE Len(raw_series) - (Window - 1)
           /\ \A k \in 1..Len(annotated) :
                /\ annotated[k].ts = raw_series[Origin(k)].ts
                /\ annotated[k].close = raw_series[Origin(k)].close
                /\ annotated[k].SMA21[1].num * Window
                     = annotated[k].SMA21[1].den
                         * SumClose(raw_series, Origin(k) - (Window - 1), Origin(k))
                /\ annotated[k].EMA34 = <<EwmMean(raw_series, Origin(k))>>
                /\ {annotated[k].upper_band, annotated[k].lower_band}
                     = {annotated[k].EMA34, annotated[k].SMA21}
                /\ RatLeq(annotated[k].lower_band[1], annotated[k].SMA21[1])
                /\ RatLeq(annotated[k].SMA21[1], annotated[k].upper_band[1])

C19_Witness ==
    /\ Annotated
    /\ Len(raw_series) = Window + 1
    /\ Len(annotated) = 2
    /\ annotated[1].close # annotated[2].close
    /\ annotated[2].upper_band # annotated[2].lower_band

(* The raw series closes at one price throughout.                          *)
ConstantSeries ==
    \A i \in 1..Len(raw_series) : raw_series[i].close = raw_series[1].close

(* C20: on a series of at least 21 candles that all close at P, every
   annotated candle has both averages and both bands equal to P, and the
   detector, called after each candle of the series, has armed no signal
   and returned none.                                                      *)
C20_ConstantSeriesNeverArms ==
    (fn_args # <<>> /\ fn_result # <<>> /\ Len(raw_series) >= Window /\ ConstantSeries)
        => /\ (pc = "signal" =>
                 \A k \in 1..Len(annotated) :
                    /\ annotated[k].EMA34 = <<[num |-> raw_series[1].close, den |-> 1]>>
                    /\ annotated[k].SMA21 = <<[num |-> raw_series[1].close, den |-> 1]>>
                    /\ annotated[k].upper_band = annotated[k].EMA34
                    /\ annotated[k].lower_band = annotated[k].EMA34)
           /\ pending_signal = None
           /\ last_signal_candle = <<>>
           /\ signal = None

C20_Witness ==
    /\ pc = "candle"
    /\ fn_result # <<>>
    /\ Len(raw_series) = Window + 1
    /\ ConstantSeries
    /\ Len(annotated) = 2
    /\ annotated[1].upper_band = annotated[1].lower_band
    /\ pending_signal = None

(* The positions of a cycle after its fetch, and the sleeps that end it.   *)
InCycle == {"detect", "exec_fetch", "set_leverage", "post_order"}
CycleEnd == {"sleep", "backoff"}

(* C21: at most one fetch-detect-execute cycle is in flight: a cycle that
   has fetched goes on to its detection and execution or to the sleep that
   ends it, and a fetch begins only from the boundary wait, with no request
   of an earlier cycle outstanding.                                        *)
C21_OneCycleInFlight ==
    [][/\ (pc \in InCycle => pc' \in InCycle \cup CycleEnd)
       /\ (pc = "fetch" => pc' \in {"fetch", "detect", "retry_sleep"})
       /\ ((pc # "fetch" /\ pc' = "fetch")
             => (pc = "wait" /\ attempts = 0 /\ order = <<>> /\ trade_ok = None))]_vars

C21_Witness == pc = "fetch" /\ fired_at # {} /\ order = <<>> /\ signal # None

(* C22: a call made while a signal is pending arms no new signal and never
   overwrites the pending direction or timestamp: it clears both (fire,
   discard) or leaves both as they are, whatever the previous candle did,
   it returns nothing but the pending direction, and while the current
   candle is earlier than the expected one it changes nothing.             *)
C22_NoDetectionWhilePending ==
    [][(Returns /\ Pending)
         => /\ \/ (pending_signal' = None /\ last_signal_candle' = <<>>)
               \/ (pending_signal' = pending_signal
                     /\ last_signal_candle' = last_signal_candle)
            /\ signal' \in {None, pending_signal}
            /\ ((Len(df) >= 2 /\ Current.ts < Expected)
                  => /\ pending_signal' = pending_signal
                     /\ last_signal_candle' = last_signal_candle
                     /\ signal' = None)]_vars

C22_Witness ==
    /\ Pending
    /\ signal = None
    /\ Len(df) >= 2
    /\ Current.ts < Expected
    /\ OutsideBands(Previous) \notin {None, pending_signal}

(* The previous candle closed within its band, the band's edges included.  *)
InsideBands(prev) == prev.lower <= prev.close /\ prev.close <= prev.upper

(* C23: a call on a series of fewer than 2 candles, and a call with no
   signal pending whose previous candle closed within its band (edges
   included), returns no signal and leaves pending_signal and
   last_signal_candle as they were.                                        *)
C23_NoOpCalls ==
    [][(Returns /\ (Len(df) < 2 \/ (~Pending /\ InsideBands(Previous))))
         => /\ signal' = None
            /\ pending_signal' = pending_signal
            /\ last_signal_candle' = last_signal_candle]_vars

C23_Witness ==
    /\ pc = "sleep"
    /\ Len(df) >= 2
    /\ call_ts = <<Current.ts>>
    /\ Previous.close = Previous.upper
    /\ pending_signal = None
    /\ last_signal_candle = <<>>
    /\ discarded = {}
    /\ fired_at = {}

(* C24: when the re-fetch of execute_trade returns no candles, execute_trade
   reports failure with no set-leverage and no order request sent, the
   iteration goes to its sleep, and the detector has no signal pending.    *)
C24_NoOrderWithoutBands ==
    (trade_ok = "False" /\ bands = <<>>)
        => /\ pc = "sleep"
           /\ lev_data = <<>>
           /\ lev_status = "none"
           /\ attempts = 0
           /\ order_reqs = 0
           /\ order = <<>>
           /\ pending_signal = None
           /\ last_signal_candle = <<>>

C24_Witness ==
    /\ pc = "sleep"
    /\ signal # None
    /\ trade_ok = "False"
    /\ bands = <<>>
    /\ order_reqs = 0

(* C25: every fetch that feeds the detector follows, in the same iteration,
   a sleep to a candle boundary strictly later than the iteration's start,
   whatever path led to the iteration (first pass, normal sleep, retry sleep
   or back-off); so each call of get_signal happens in a candle interval
   strictly later than the previous call's.                                *)
C25_OneCallPerInterval ==
    [][/\ ((pc # "fetch" /\ pc' = "fetch") => (pc = "wait" /\ now' > now))
       /\ ((pc # "detect" /\ pc' = "detect") => (pc = "fetch" /\ now' = now))
       /\ (Returns => /\ (detect_at = <<>> \/ detect_at[1] < now)
                      /\ detect_at' = <<now>>)]_vars

C25_Witness == pc = "detect" /\ detect_at # <<>> /\ detect_at[1] = now - 1 /\ fired_at # {}

(* C26: pending_signal and last_signal_candle are both unset after
   construction and both set or both unset after every call of get_signal;
   when set, pending_signal is 'long' or 'short', and the pair only ever
   becomes set together, to the direction and the timestamp of the call's
   previous candle, whose close was outside its band on that side.         *)
C26_PendingPairedWithCandle ==
    /\ (pending_signal = None <=> last_signal_candle = <<>>)
    /\ [][Returns
            => /\ (pending_signal' = None <=> last_signal_candle' = <<>>)
               /\ pending_signal' \in {None, "long", "short"}
               /\ ((pending_signal' # None
                      /\ (pending_signal' # pending_signal \/ last_signal_candle' # last_signal_candle))
                     => /\ Len(df) >= 2
                        /\ last_signal_candle' = <<Previous.ts>>
                        /\ pending_signal' = OutsideBands(Previous)
                        /\ (pending_signal' = "long" <=> Previous.close > Previous.upper)
                        /\ (pending_signal' = "short" <=> Previous.close < Previous.lower))]_vars

C26_Witness ==
    /\ pending_signal = "long"
    /\ \E t \in 0..MaxCallTime : last_signal_candle = <<t>>
    /\ Len(df) >= 2
    /\ Current.ts = Expected

(* C27: of two consecutive calls of get_signal, at most one returns a
   signal and at most one arms a signal; a call that fires or discards ends
   with nothing pending, even when its previous candle, the one right after
   the arming candle, closed outside its band.                             *)
C27_NoBackToBack ==
    [][Returns
         => /\ ~(last_call = "fired" /\ last_call' = "fired")
            /\ ~(last_call = "armed" /\ last_call' = "armed")
            /\ (last_call = "fired" => signal' = None)
            /\ (last_call = "armed" => last_call' \in {"fired", "discarded", "waiting"})
            /\ (last_call' \in {"fired", "discarded"}
                  => pending_signal' = None /\ last_signal_candle' = <<>>)]_vars

C27_Witness ==
    /\ pc = "sleep"
    /\ last_call = "discarded"
    /\ pending_signal = None
    /\ Len(df) >= 2
    /\ OutsideBands(Previous) # None
    /\ Previous.ts - Interval \in discarded

(* C28: active_position stays unset and check_and_close_position returns
   False; a call of get_signal that returns a direction is always followed
   by execute_trade, however many orders the exchange has accepted before;
   and every request to the order endpoint is the opening order of the
   signal being executed: buy for long, sell for short.                    *)
C28_NoPositionRecord ==
    [][/\ active_position = None /\ active_position' = None
       /\ ~CheckAndClosePosition
       /\ ((Returns /\ signal' # None) => pc' = "exec_fetch")
       /\ (order_reqs' > order_reqs
             => /\ pc = "post_order"
                /\ signal \in {"long", "short"}
                /\ order # <<>>
                /\ order[1].side = (IF signal = "long" THEN "buy" ELSE "sell"))]_vars

C28_Witness == pc = "post_order" /\ orders_placed >= 1 /\ active_position = None /\ order # <<>>

(* C29: on every candle of the annotated series the upper band is the
   larger and the lower band the smaller of the two averages, so the lower
   band is not above the upper band, the width upper - lower is not
   negative, and the close is not both above the upper band and below the
   lower band.                                                             *)
C29_BandsOrdered ==
    Annotated
        => \A k \in 1..Len(annotated) :
              LET row == annotated[k]
                  u == row.upper_band[1]
                  l == row.lower_band[1]
                  s == Scaled(row)
              IN  /\ (row.upper_band = row.EMA34
                        => row.lower_band = row.SMA21 /\ RatLeq(row.SMA21[1], row.EMA34[1]))
                  /\ (row.upper_band # row.EMA34
                        => /\ row.upper_band = row.SMA21
                           /\ row.lower_band = row.EMA34
                           /\ RatLeq(row.EMA34[1], row.SMA21[1]))
                  /\ RatLeq(l, u)
                  /\ u.num * l.den - l.num * u.den >= 0
                  /\ s.lower <= s.upper
                  /\ ~(s.close > s.upper /\ s.close < s.lower)

C29_Witness ==
    /\ Annotated
    /\ \E k \in 1..Len(annotated) :
          /\ annotated[k].upper_band = annotated[k].SMA21
          /\ annotated[k].upper_band # annotated[k].lower_band
          /\ Scaled(annotated[k]).close < Scaled(annotated[k]).lower
    /\ \E k \in 1..Len(annotated) :
          /\ annotated[k].upper_band = annotated[k].EMA34
          /\ annotated[k].upper_band # annotated[k].lower_band

====
